---- MODULE Spec2Model ----
(***************************************************************************)
(* Model of the semantic retrieval engine of Finance-RAG-System:           *)
(* VectorStore (src/src/vector_store.py), QueryProcessor                   *)
(* (src/src/query_processor.py) and the application's calls on the store   *)
(* (src/app.py).  Spec is the store with its queries, SpecQP the query     *)
(* processor's functions on a list of results, SpecApp the application     *)
(* with its documents directory and its query handler, SpecStore the store *)
(* under its own mutating calls and the application's refresh, and         *)
(* SpecClassify the query classification functions of src/src/utils.py.    *)
(*                                                                         *)
(* Python's None is the empty tuple <<>> and a present value x is <<x>>,   *)
(* so that "x is None" is a comparison of two tuples.  Vectors are tuples  *)
(* of integers; the FAISS IndexFlatL2 object is the record                 *)
(* [d |-> its dimension, xb |-> the vectors added so far].                 *)
(***************************************************************************)
EXTENDS Integers, Sequences, FiniteSets, TLC

VARIABLES
    index,        \* VectorStore.index: None or <<[d, xb]>>
    documents,    \* VectorStore.documents: the list of document dicts
    dimension,    \* VectorStore.dimension: None or <<D>>
    op,           \* the last call made on the store or the query processor
    status,       \* how that call ended
    raised,       \* whether it ended by raising to its caller
    results,      \* what it returned (a list; <<>> for the mutating calls)
    searchLog,    \* the query vectors handed to VectorStore.search by it
    argShape,     \* the shape of its embeddings argument (None for a query call)
    argK,         \* its top_k argument (None for a mutating call)
    encoded,      \* what encode_query returned to it (None: nothing, or no call)
    argId,        \* its doc_id argument (None for any call but get_document)
    argDocs,      \* the list of result dicts a query-processor call is made on
    argLimit,     \* its threshold or max_length argument (None: no such call)
    docsAfter,    \* that list as the caller finds it after the call
    pre,          \* when it was made: [d: the index's dimension or None,
                  \*                    dimension: the store's dimension field]
    changed,      \* whether it left index, documents or dimension different
    docsChanged,  \* whether it left self.documents a different list
    vecsChanged,  \* whether it left the index holding different vectors
    earlierKept,  \* after add_documents: whether the documents and the
                  \* vectors it found are still there, at the positions
                  \* they had (None after any other call)
    twice,        \* after rebuild_index: the store a second call with the same
                  \* arguments would leave (None after any other call)
    fresh,        \* after rebuild_index: the store build_index with the same
                  \* arguments leaves on a new VectorStore (None otherwise)
    systemDocuments, \* system['documents'] of the application
    files,        \* the documents directory: what each file name holds
    query,        \* the query string last classified or handled
    isStock,      \* what is_stock_query returned for it (None: not called)
    intent,       \* what get_query_intent returned for it (None: not called)
    stockSymbols, \* the symbol list obtained for it (None: none obtained)
    context,      \* the document context handed to generate_response
    answer        \* the answer process_query returned (None: none yet)

vars ==
    <<index, documents, dimension, op, status, raised, results, searchLog,
      argShape, argK, encoded, argId, argDocs, argLimit, docsAfter, pre,
      changed, docsChanged, vecsChanged, earlierKept, twice, fresh,
      systemDocuments, files, query, isStock, intent, stockSymbols, context, answer>>

\* The application's state besides the store, and the part of it only a
\* query changes.
queryVars == <<query, isStock, intent, stockSymbols, context, answer>>
appVars == <<systemDocuments, files, queryVars>>

\* ---------------------------------------------------------------- bounds
\* Longest embeddings list passed to one call.
MaxLen == 2
\* Longest list of result dicts passed to filter_documents_by_threshold and
\* prepare_context.
MaxRanked == 3
\* Most vectors held by the index, and most documents stored, in a state.
MaxVecs == 2
\* Largest top_k passed to search and retrieve_documents.
MaxK == 2

\* ---------------------------------------------------------------- values
None == <<>>
Some(x) == <<x>>
IsNone(o) == o = None
Val(o) == o[1]

\* The embedding vectors the mutating calls are made with (dimension 2 and
\* dimension 3), and the query vectors.
VecPool == {<<0, 0>>, <<10, 10>>, <<1, 0, 2>>}
QueryPool == {<<1, 1>>, <<10, 10>>, <<1, 0, 2>>}

\* The document dicts ('id', 'filename', 'content') of the corpus; a call is
\* made with any sublist of it, in corpus order.  The second carries an id
\* that is not its position.
Corpus ==
    << [id |-> 0, filename |-> "a.txt", content |-> "aa"],
       [id |-> 5, filename |-> "b.txt", content |-> "b"] >>

\* The ids get_document is called with: negative, every position, the count
\* and past it.
DocIds == -1..(MaxVecs + 1)

SeqsUpTo(S, n) == UNION {[1..m -> S] : m \in 0..n}
\* An embeddings argument: a list of rows.  `nested` says that every row is
\* itself a list holding the one vector ([[v]] for <<v>>), as when per-chunk
\* lists are passed; np.array then gives a 3-D array.
Embeddings(rows, nested) == [rows |-> rows, nested |-> nested]
\* The lists of rows a call is made with: rows of one length throughout, or
\* with the last row alone of another length; of the ragged lists of one
\* shape, one (np.array treats every ragged list alike).
RowLists ==
    {r \in SeqsUpTo(VecPool, MaxLen) :
        \/ \A i \in 1..Len(r) : Len(r[i]) = Len(r[1])
        \/ /\ \A i \in 1..(Len(r) - 1) : r[i] = <<0, 0>>
           /\ r[Len(r)] = <<1, 0, 2>>}
EmbeddingLists ==
    {Embeddings(r, FALSE) : r \in RowLists}
    \cup {Embeddings(<<v>>, TRUE) : v \in VecPool}
DocumentLists ==
    { SelectSeq(Corpus, LAMBDA d : d.filename \in keep) :
        keep \in SUBSET {Corpus[i].filename : i \in 1..Len(Corpus)} }

\* The shape of an embeddings list: its length, its rows' lengths (a nested
\* row is a list of length 1) and whether its rows are nested.
ShapeOf(E) ==
    [n |-> Len(E.rows),
     dims |-> {IF E.nested THEN 1 ELSE Len(E.rows[i]) : i \in 1..Len(E.rows)},
     nested |-> E.nested]

Min(a, b) == IF a <= b THEN a ELSE b

\* ------------------------------------------------------------- numpy/faiss
\* np.array(embeddings, dtype=np.float32) raises ValueError on a ragged list;
\* otherwise the array is 1-D of shape (0,) for an empty list, 2-D of shape
\* (n, d) for n vectors of length d, 3-D of shape (n, 1, d) for nested rows.
IsRagged(E) == \E i \in 1..Len(E.rows) : Len(E.rows[i]) # Len(E.rows[1])
NDim(E) == IF E.rows = <<>> THEN 1 ELSE IF E.nested THEN 3 ELSE 2
\* embeddings_array.shape[1] of an array of two or three dimensions.
Shape1(E) == IF E.nested THEN 1 ELSE Len(E.rows[1])
\* IndexFlatL2.add(x): "n, d = x.shape" and "assert d == self.d" both pass.
Addable(ix, E) == ~IsRagged(E) /\ NDim(E) = 2 /\ Shape1(E) = ix.d

\* Squared Euclidean distance, the metric of IndexFlatL2.
RECURSIVE SumSq(_, _, _)
SumSq(v, q, i) ==
    IF i = 0 THEN 0 ELSE (v[i] - q[i]) * (v[i] - q[i]) + SumSq(v, q, i - 1)
L2(v, q) == SumSq(v, q, Len(v))

\* (distance, id) order: smaller distance first, the lower id first on a tie.
Closer(xb, q, i, j) ==
    \/ L2(xb[i], q) < L2(xb[j], q)
    \/ L2(xb[i], q) = L2(xb[j], q) /\ i < j

\* IndexFlatL2.search(q, k): the ids (0-based) and distances of the k nearest
\* vectors, ascending; positions past ntotal hold id -1.
RECURSIVE Nearest(_, _, _, _)
Nearest(xb, q, left, k) ==
    IF k = 0 THEN <<>>
    ELSE IF left = {} THEN <<<<-1, -1>>>> \o Nearest(xb, q, left, k - 1)
    ELSE LET b == CHOOSE i \in left : \A j \in left \ {i} : Closer(xb, q, i, j)
         IN  <<<<b - 1, L2(xb[b], q)>>>> \o Nearest(xb, q, left \ {b}, k - 1)
faiss_search(ix, q, k) == Nearest(ix.xb, q, 1..Len(ix.xb), k)

\* ------------------------------------------------------------ VectorStore
\* A store value: the three fields of a VectorStore object.
Store(ix, docs, dim) == [index |-> ix, documents |-> docs, dimension |-> dim]
StoreNow == Store(index, documents, dimension)

\* What a call leaves behind: the store, how it ended, what it returned.
Outcome(s, st, r, res) ==
    [store |-> s, status |-> st, raised |-> r, results |-> res, searched |-> <<>>]

\* VectorStore.__init__
EmptyStore == Store(None, <<>>, None)

\* The vectors the store's index holds: none without an index.
Vectors(s) == IF IsNone(s.index) THEN <<>> ELSE Val(s.index).xb

\* The list a is the beginning of the list b.
IsPrefix(a, b) == Len(a) <= Len(b) /\ SubSeq(b, 1, Len(a)) = a

\* What a call finds: the index's own dimension (None without an index) and
\* the store's dimension field.
Before(s) ==
    [d |-> IF IsNone(s.index) THEN None ELSE Some(Val(s.index).d),
     dimension |-> s.dimension]

\* build_index resetting the store's fields before its guard.
build_index_clears(s, E, D) ==
    IF E.rows = <<>> \/ D = <<>>
    THEN Outcome(EmptyStore, "EmptyInput", FALSE, <<>>)
    ELSE IF IsRagged(E)
    THEN Outcome(s, "DimensionMismatch", TRUE, <<>>)
    ELSE IF NDim(E) # 2
    THEN Outcome(Store(Some([d |-> Shape1(E), xb |-> <<>>]), s.documents,
                       Some(Shape1(E))),
                 "DimensionMismatch", TRUE, <<>>)
    ELSE Outcome(Store(Some([d |-> Shape1(E), xb |-> E.rows]), D,
                       Some(Shape1(E))),
                 "ok", FALSE, <<>>)

\* build_index keeping the documents the store already has.
build_index_keeps_documents(s, E, D) ==
    IF E.rows = <<>> \/ D = <<>>
    THEN Outcome(s, "EmptyInput", FALSE, <<>>)
    ELSE IF IsRagged(E)
    THEN Outcome(s, "DimensionMismatch", TRUE, <<>>)
    ELSE IF NDim(E) # 2
    THEN Outcome(Store(Some([d |-> Shape1(E), xb |-> <<>>]), s.documents,
                       Some(Shape1(E))),
                 "DimensionMismatch", TRUE, <<>>)
    ELSE Outcome(Store(Some([d |-> Shape1(E), xb |-> E.rows]),
                       IF s.documents = <<>> THEN D ELSE s.documents,
                       Some(Shape1(E))),
                 "ok", FALSE, <<>>)

\* build_index keeping the dimension the store already has.
build_index_keeps_dimension(s, E, D) ==
    IF E.rows = <<>> \/ D = <<>>
    THEN Outcome(s, "EmptyInput", FALSE, <<>>)
    ELSE IF IsRagged(E)
    THEN Outcome(s, "DimensionMismatch", TRUE, <<>>)
    ELSE IF NDim(E) # 2
    THEN Outcome(Store(Some([d |-> Shape1(E), xb |-> <<>>]), s.documents,
                       Some(Shape1(E))),
                 "DimensionMismatch", TRUE, <<>>)
    ELSE Outcome(Store(Some([d |-> Shape1(E), xb |-> E.rows]), D,
                       IF IsNone(s.dimension) THEN Some(Shape1(E))
                       ELSE s.dimension),
                 "ok", FALSE, <<>>)

\* VectorStore.build_index(embeddings, documents).  The guard returns with a
\* warning on an empty list; np.array raises on a ragged list before any field
\* is assigned.  Then self.dimension is assigned, then self.index (a new,
\* empty IndexFlatL2); index.add raises on an array that is not 2-D, and the
\* handler re-raises with those two fields already replaced; otherwise the
\* vectors are added and self.documents assigned.  The two lists' lengths are
\* never compared.
build_index(s, E, D) ==
    IF E.rows = <<>> \/ D = <<>>
    THEN Outcome(s, "EmptyInput", FALSE, <<>>)
    ELSE IF IsRagged(E)
    THEN Outcome(s, "DimensionMismatch", TRUE, <<>>)
    ELSE IF NDim(E) # 2
    THEN Outcome(Store(Some([d |-> Shape1(E), xb |-> <<>>]), s.documents,
                       Some(Shape1(E))),
                 "DimensionMismatch", TRUE, <<>>)
    ELSE Outcome(Store(Some([d |-> Shape1(E), xb |-> E.rows]), D,
                       Some(Shape1(E))),
                 "ok", FALSE, <<>>)

\* rebuild_index discarding an existing index and its documents, and building
\* only when there was none.
rebuild_index_discards(s, E, D) ==
    IF IsNone(s.index)
    THEN build_index(s, E, D)
    ELSE Outcome(EmptyStore, "ok", FALSE, <<>>)

\* VectorStore.rebuild_index(embeddings, documents): build_index again.
rebuild_index(s, E, D) == build_index(s, E, D)

\* for i, doc in enumerate(documents): doc['id'] = start_id + i
Renumber(D, start_id) ==
    [i \in 1..Len(D) |-> [D[i] EXCEPT !.id = start_id + (i - 1)]]

\* The store after index.add(embeddings_array) and documents.extend(documents).
Appended(s, E, D) ==
    Store(Some([Val(s.index) EXCEPT !.xb = @ \o E.rows]),
          s.documents \o Renumber(D, Len(s.documents)),
          s.dimension)

\* add_documents extending self.documents before index.add is tried.
add_documents_docs_first(s, E, D) ==
    IF IsNone(s.index)
    THEN build_index(s, E, D)
    ELSE IF E.rows = <<>>
    THEN Outcome(s, "EmptyInput", TRUE, <<>>)
    ELSE IF ~Addable(Val(s.index), E)
    THEN Outcome(Store(s.index, s.documents \o Renumber(D, Len(s.documents)),
                       s.dimension),
                 "DimensionMismatch", TRUE, <<>>)
    ELSE Outcome(Appended(s, E, D), "ok", FALSE, <<>>)

\* add_documents refusing to work without an index.
add_documents_not_built(s, E, D) ==
    IF IsNone(s.index)
    THEN Outcome(s, "NotBuilt", TRUE, <<>>)
    ELSE IF E.rows = <<>>
    THEN Outcome(s, "EmptyInput", TRUE, <<>>)
    ELSE IF ~Addable(Val(s.index), E)
    THEN Outcome(s, "DimensionMismatch", TRUE, <<>>)
    ELSE Outcome(Appended(s, E, D), "ok", FALSE, <<>>)

\* add_documents putting the new vectors and documents first.
add_documents_prepends(s, E, D) ==
    IF IsNone(s.index)
    THEN build_index(s, E, D)
    ELSE IF E.rows = <<>>
    THEN Outcome(s, "EmptyInput", TRUE, <<>>)
    ELSE IF ~Addable(Val(s.index), E)
    THEN Outcome(s, "DimensionMismatch", TRUE, <<>>)
    ELSE Outcome(Store(Some([Val(s.index) EXCEPT !.xb = E.rows \o @]),
                       Renumber(D, Len(s.documents)) \o s.documents,
                       s.dimension),
                 "ok", FALSE, <<>>)

\* VectorStore.add_documents(embeddings, documents).  Without an index it
\* builds one from its arguments.  With one, np.array raises on a ragged list,
\* index.add raises on an array that is not (n, index.d), both before anything
\* is changed (the handler re-raises); then the vectors are appended, the new
\* documents numbered from len(self.documents) and appended.
add_documents(s, E, D) ==
    IF IsNone(s.index)
    THEN build_index(s, E, D)
    ELSE IF E.rows = <<>>
    THEN Outcome(s, "EmptyInput", TRUE, <<>>)
    ELSE IF ~Addable(Val(s.index), E)
    THEN Outcome(s, "DimensionMismatch", TRUE, <<>>)
    ELSE Outcome(Appended(s, E, D), "ok", FALSE, <<>>)

\* The (idx, distance) pairs with idx != -1.
ValidPairs(pairs) == SelectSeq(pairs, LAMBDA p : p[1] # -1)

\* search without its index-is-None guard outside the handler: it raises.
search_raises_unbuilt(s, q, top_k) ==
    IF IsNone(s.index)
    THEN Outcome(s, "NotBuilt", TRUE, <<>>)
    ELSE IF Len(q) # Val(s.index).d
    THEN Outcome(s, "DimensionMismatch", FALSE, <<>>)
    ELSE IF Min(top_k, Len(s.documents)) <= 0
    THEN Outcome(s, "InvalidK", FALSE, <<>>)
    ELSE Outcome(s, "ok", FALSE,
                 ValidPairs(faiss_search(Val(s.index), q,
                                         Min(top_k, Len(s.documents)))))

\* search over an index that does not assert the query's dimension: it reads
\* whatever lies behind the query and reports the first vector at distance 0.
search_no_dim_assert(s, q, top_k) ==
    IF IsNone(s.index)
    THEN Outcome(s, "NotBuilt", FALSE, <<>>)
    ELSE IF Min(top_k, Len(s.documents)) <= 0
    THEN Outcome(s, "InvalidK", FALSE, <<>>)
    ELSE IF Len(q) # Val(s.index).d
    THEN Outcome(s, "ok", FALSE, <<<<0, 0>>>>)
    ELSE Outcome(s, "ok", FALSE,
                 ValidPairs(faiss_search(Val(s.index), q,
                                         Min(top_k, Len(s.documents)))))

\* VectorStore.search(query_embedding, top_k).  No index: an error message and
\* []. IndexFlatL2.search asserts the query's dimension and k > 0; the handler
\* turns either failure into an error message and [].  k is top_k clamped to
\* len(self.documents).
search(s, q, top_k) ==
    IF IsNone(s.index)
    THEN Outcome(s, "NotBuilt", FALSE, <<>>)
    ELSE IF Len(q) # Val(s.index).d
    THEN Outcome(s, "DimensionMismatch", FALSE, <<>>)
    ELSE IF Min(top_k, Len(s.documents)) <= 0
    THEN Outcome(s, "InvalidK", FALSE, <<>>)
    ELSE Outcome(s, "ok", FALSE,
                 ValidPairs(faiss_search(Val(s.index), q,
                                         Min(top_k, Len(s.documents)))))

\* get_document answering an id past the end with the last document.
get_document_clamped(s, doc_id) ==
    IF s.documents = <<>> \/ doc_id < 0
    THEN None
    ELSE Some(s.documents[Min(doc_id, Len(s.documents) - 1) + 1])

\* get_document testing only doc_id < len(self.documents): a negative id then
\* indexes the list from its end.
get_document_from_end(s, doc_id) ==
    IF doc_id < Len(s.documents) /\ -doc_id <= Len(s.documents)
    THEN Some(s.documents[IF doc_id >= 0 THEN doc_id + 1
                          ELSE Len(s.documents) + doc_id + 1])
    ELSE None

\* VectorStore.get_document(doc_id): the document at that position, or {}
\* (here None) when the id is out of range.
get_document(s, doc_id) ==
    IF 0 <= doc_id /\ doc_id < Len(s.documents)
    THEN Some(s.documents[doc_id + 1])
    ELSE None

\* ---------------------------------------------------------- QueryProcessor
\* QueryProcessor.encode_query(query): the provider's vector, or None when
\* model.encode raises.
encode_query(ok, v) == IF ok THEN Some(v) ELSE None

\* similarity_score = 1.0 / (1.0 + distance), kept as the fraction <<1, 1 + d>>.
Similarity(distance) == <<1, 1 + distance>>
SimGreater(a, b) == a[1] * b[2] > b[1] * a[2]

\* doc.copy() with 'similarity_score' and 'distance' added.
WithScore(doc, distance) ==
    [id |-> doc.id, filename |-> doc.filename, content |-> doc.content,
     similarity_score |-> Similarity(distance), distance |-> distance]

\* The loop over search_results: a pair whose document is {} adds nothing.
RECURSIVE JoinDocs(_, _)
JoinDocs(s, pairs) ==
    IF pairs = <<>> THEN <<>>
    ELSE LET doc == get_document(s, Head(pairs)[1])
         IN  (IF IsNone(doc) THEN <<>>
              ELSE <<WithScore(Val(doc), Head(pairs)[2])>>)
             \o JoinDocs(s, Tail(pairs))

\* An insertion that puts x before the entries of equal similarity: the sort
\* built on it is not stable.
RECURSIVE InsertDesc_before_ties(_, _)
InsertDesc_before_ties(sorted, x) ==
    IF sorted = <<>> THEN <<x>>
    ELSE IF ~SimGreater(Head(sorted).similarity_score, x.similarity_score)
    THEN <<x>> \o sorted
    ELSE <<Head(sorted)>> \o InsertDesc_before_ties(Tail(sorted), x)

\* list.sort(key=similarity_score, reverse=True): stable, highest first.
RECURSIVE InsertDesc(_, _)
InsertDesc(sorted, x) ==
    IF sorted = <<>> THEN <<x>>
    ELSE IF SimGreater(x.similarity_score, Head(sorted).similarity_score)
    THEN <<x>> \o sorted
    ELSE <<Head(sorted)>> \o InsertDesc(Tail(sorted), x)
RECURSIVE SortDesc(_)
SortDesc(docs) ==
    IF docs = <<>> THEN <<>>
    ELSE InsertDesc(SortDesc(SubSeq(docs, 1, Len(docs) - 1)), docs[Len(docs)])

\* retrieve_documents searching with a zero vector when encoding failed.
retrieve_documents_fallback(s, enc, top_k) ==
    LET e == IF IsNone(enc) THEN Some(<<0, 0>>) ELSE enc
        sr == search(s, Val(e), top_k)
    IN  [Outcome(s,
                 IF sr.results = <<>> /\ sr.status = "ok"
                 THEN "NoResults" ELSE sr.status,
                 FALSE,
                 SortDesc(JoinDocs(s, sr.results)))
         EXCEPT !.searched = <<Val(e)>>]

\* The store's documents with the scores written into the stored dicts that
\* the pairs name, as they would be without doc.copy().
RECURSIVE ScoredInPlace(_, _)
ScoredInPlace(docs, pairs) ==
    IF pairs = <<>> THEN docs
    ELSE LET i == Head(pairs)[1]
         IN  ScoredInPlace(IF 0 <= i /\ i < Len(docs)
                           THEN [docs EXCEPT ![i + 1] =
                                    WithScore(docs[i + 1], Head(pairs)[2])]
                           ELSE docs,
                           Tail(pairs))

\* retrieve_documents adding the scores to the stored dict, not to a copy.
retrieve_documents_in_place(s, enc, top_k) ==
    IF IsNone(enc)
    THEN Outcome(s, "EncodingFailed", FALSE, <<>>)
    ELSE LET sr == search(s, Val(enc), top_k)
         IN  [Outcome(Store(s.index, ScoredInPlace(s.documents, sr.results),
                            s.dimension),
                      IF sr.results = <<>> /\ sr.status = "ok"
                      THEN "NoResults" ELSE sr.status,
                      FALSE,
                      SortDesc(JoinDocs(s, sr.results)))
              EXCEPT !.searched = <<Val(enc)>>]

\* retrieve_documents letting a failed encoding raise to its caller.
retrieve_documents_raises(s, enc, top_k) ==
    IF IsNone(enc)
    THEN Outcome(s, "EncodingFailed", TRUE, <<>>)
    ELSE LET sr == search(s, Val(enc), top_k)
         IN  [Outcome(s,
                      IF sr.results = <<>> /\ sr.status = "ok"
                      THEN "NoResults" ELSE sr.status,
                      FALSE,
                      SortDesc(JoinDocs(s, sr.results)))
              EXCEPT !.searched = <<Val(enc)>>]

\* QueryProcessor.retrieve_documents(query, vector_store, top_k), given what
\* encode_query returned.  None: [] at once.  Otherwise search; an empty
\* search result: a warning and []; else the joined documents, sorted.
retrieve_documents(s, enc, top_k) ==
    IF IsNone(enc)
    THEN Outcome(s, "EncodingFailed", FALSE, <<>>)
    ELSE LET sr == search(s, Val(enc), top_k)
         IN  [Outcome(s,
                      IF sr.results = <<>> /\ sr.status = "ok"
                      THEN "NoResults" ELSE sr.status,
                      FALSE,
                      SortDesc(JoinDocs(s, sr.results)))
              EXCEPT !.searched = <<Val(enc)>>]

\* a >= b for two fractions.
SimGeq(a, b) == a[1] * b[2] >= b[1] * a[2]

\* The distances the result dicts are made with: similarities 1, 1/2, 1/4.
Distances == {0, 1, 3}
\* The result dicts retrieve_documents makes of the corpus' documents, and the
\* lists of them a query-processor call is made on.
ResultDicts ==
    {WithScore(Corpus[i], d) : i \in 1..Len(Corpus), d \in Distances}
RankedLists == SeqsUpTo(ResultDicts, MaxRanked)
\* The thresholds (fractions): 0, the default 0.3, 1/2, 1 and 2.
Thresholds == {<<0, 1>>, <<3, 10>>, <<1, 2>>, <<1, 1>>, <<2, 1>>}
\* The max_length values: 0, lengths about one and two blocks of the corpus,
\* and the default 2000.
MaxLengths == {0, 22, 44, 45, 46, 2000}

\* What a call on a list leaves behind: what it returned, and the list.
Returned(value, docs) == [returned |-> value, documents |-> docs]

\* The filter keeping only the entries strictly above the threshold.
filter_documents_above(docs, threshold) ==
    Returned(SelectSeq(docs, LAMBDA doc :
                 SimGreater(doc.similarity_score, threshold)),
             docs)

\* QueryProcessor.filter_documents_by_threshold(documents, threshold): a new
\* list of the entries with similarity_score >= threshold.  Every entry here
\* carries the key, as retrieve_documents' results do, so the default 0 of
\* doc.get is never taken.
filter_documents_by_threshold(docs, threshold) ==
    Returned(SelectSeq(docs, LAMBDA doc :
                 SimGeq(doc.similarity_score, threshold)),
             docs)

\* f"Document: {doc['filename']}\n{doc['content']}\n---\n"
doc_content(doc) ==
    "Document: " \o doc.filename \o "\n" \o doc.content \o "\n---\n"

\* The loop going on to the next document (continue) where the code breaks.
RECURSIVE context_parts_continue(_, _, _, _)
context_parts_continue(docs, max_length, parts, current_length) ==
    IF docs = <<>> THEN parts
    ELSE IF current_length + Len(doc_content(Head(docs))) > max_length
            /\ parts # <<>>
    THEN context_parts_continue(Tail(docs), max_length, parts, current_length)
    ELSE context_parts_continue(Tail(docs), max_length,
                                Append(parts, doc_content(Head(docs))),
                                current_length + Len(doc_content(Head(docs))))

\* The loop of prepare_context: context_parts when it ends.
RECURSIVE context_parts(_, _, _, _)
context_parts(docs, max_length, parts, current_length) ==
    IF docs = <<>> THEN parts
    ELSE IF current_length + Len(doc_content(Head(docs))) > max_length
            /\ parts # <<>>
    THEN parts
    ELSE context_parts(Tail(docs), max_length,
                       Append(parts, doc_content(Head(docs))),
                       current_length + Len(doc_content(Head(docs))))

\* sep.join(parts)
RECURSIVE Join(_, _)
Join(parts, sep) ==
    IF parts = <<>> THEN ""
    ELSE IF Len(parts) = 1 THEN parts[1]
    ELSE parts[1] \o sep \o Join(Tail(parts), sep)

\* QueryProcessor.prepare_context(documents, max_length): "" for no
\* documents, else the blocks the loop kept, joined by a newline.
prepare_context(docs, max_length) ==
    IF docs = <<>>
    THEN Returned("", docs)
    ELSE Returned(Join(context_parts(docs, max_length, <<>>, 0), "\n"), docs)

\* ---------------------------------------------------------------- strings
\* The character at position i of a string, as a one-character string.
CharAt(s, i) == SubSeq(s, i, i)

UpperCase == <<"A", "B", "C", "D", "E", "F", "G", "H", "I", "J", "K", "L", "M",
               "N", "O", "P", "Q", "R", "S", "T", "U", "V", "W", "X", "Y", "Z">>
LowerCase == <<"a", "b", "c", "d", "e", "f", "g", "h", "i", "j", "k", "l", "m",
               "n", "o", "p", "q", "r", "s", "t", "u", "v", "w", "x", "y", "z">>
IsUpper(c) == \E n \in 1..26 : UpperCase[n] = c
IsLower(c) == \E n \in 1..26 : LowerCase[n] = c

\* str.lower() of one character and of a string.
LowerChar(c) ==
    IF IsUpper(c)
    THEN LowerCase[CHOOSE n \in 1..26 : UpperCase[n] = c]
    ELSE c
RECURSIVE Lower(_)
Lower(s) ==
    IF s = "" THEN ""
    ELSE LowerChar(CharAt(s, 1)) \o Lower(SubSeq(s, 2, Len(s)))

\* `kw in s` for two strings.
Contains(s, kw) ==
    \E i \in 1..(Len(s) - Len(kw) + 1) : SubSeq(s, i, i + Len(kw) - 1) = kw

\* str.strip() leaves nothing.
IsBlank(s) == \A i \in 1..Len(s) : CharAt(s, i) \in {" ", "\n", "\t"}

\* ---------------------------------------------------- the documents directory
\* The names a file of the documents directory can have, in the order
\* os.walk lists them, and what a name can hold: nothing ("absent"), text,
\* only white space ("blank"), or something that cannot be read: a text
\* file open() fails on, a PDF that PdfReader rejects ("unreadable").  The
\* third name has an extension that is never opened, so what it holds is not
\* distinguished.
FileNames == <<"a.txt", "c.PDF", "n.md">>
Conditions == {"absent", "text", "blank", "unreadable"}
Directories ==
    {dir \in [1..Len(FileNames) -> Conditions] : dir[3] \in {"absent", "text"}}
EmptyDirectory == [n \in 1..Len(FileNames) |-> "absent"]

\* The extensions load_documents reads.
supported_extensions == {".txt", ".pdf"}

\* os.path.splitext(name)[1].
splitext(name) ==
    LET dots == {i \in 2..Len(name) : CharAt(name, i) = "."}
    IN  IF dots = {} THEN ""
        ELSE SubSeq(name, CHOOSE i \in dots : \A j \in dots : j <= i,
                    Len(name))

\* The lower-cased extension of each file name.
Extension == [n \in 1..Len(FileNames) |-> Lower(splitext(FileNames[n]))]

\* What a readable file holds: the text of a text file, the text of the one
\* page of a PDF.
Held(n, condition) ==
    IF condition = "blank" THEN " "
    ELSE IF n = 1 THEN "aa" ELSE "c"

\* DocumentProcessor._read_file(path, file_ext): [raised, text].  A text file
\* is opened and read, and open() raising is not caught here; a PDF's page
\* texts are concatenated, each followed by a newline, and any error gives
\* ""; any other extension gives "".
read_file(n, condition, file_ext) ==
    IF file_ext = ".txt"
    THEN IF condition = "unreadable"
         THEN [raised |-> TRUE, text |-> ""]
         ELSE [raised |-> FALSE, text |-> Held(n, condition)]
    ELSE IF file_ext = ".pdf"
    THEN IF condition = "unreadable"
         THEN [raised |-> FALSE, text |-> ""]
         ELSE [raised |-> FALSE, text |-> Held(n, condition) \o "\n"]
    ELSE [raised |-> FALSE, text |-> ""]

\* load_documents adding every file it reads, blank or not.
RECURSIVE load_files_keeps_blank(_, _, _)
load_files_keeps_blank(dir, n, docs) ==
    IF n > Len(FileNames) THEN docs
    ELSE LET r == read_file(n, dir[n], Extension[n])
         IN  IF dir[n] # "absent" /\ Extension[n] \in supported_extensions
                /\ ~r.raised
             THEN load_files_keeps_blank(dir, n + 1,
                      Append(docs, [id |-> Len(docs),
                                    filename |-> FileNames[n],
                                    content |-> r.text]))
             ELSE load_files_keeps_blank(dir, n + 1, docs)

\* The loop of load_documents from the n-th file on, with `docs` loaded so
\* far: a file with a supported extension is read inside try/except, so one
\* that raises is skipped; content that is not blank is appended with
\* 'id' the length of the list so far.
RECURSIVE load_files(_, _, _)
load_files(dir, n, docs) ==
    IF n > Len(FileNames) THEN docs
    ELSE LET r == read_file(n, dir[n], Extension[n])
         IN  IF dir[n] # "absent" /\ Extension[n] \in supported_extensions
                /\ ~r.raised /\ ~IsBlank(r.text)
             THEN load_files(dir, n + 1,
                      Append(docs, [id |-> Len(docs),
                                    filename |-> FileNames[n],
                                    content |-> r.text]))
             ELSE load_files(dir, n + 1, docs)

\* DocumentProcessor.load_documents(DOCUMENTS_DIR) on the directory dir.
load_documents(dir) == load_files(dir, 1, <<>>)

\* What load_documents returns on each directory.
Loaded == [dir \in Directories |-> load_documents(dir)]

\* ---------------------------------------------------------------- actions
Init ==
    /\ index = EmptyStore.index
    /\ documents = EmptyStore.documents
    /\ dimension = EmptyStore.dimension
    /\ op = "init"
    /\ status = "ok"
    /\ raised = FALSE
    /\ results = <<>>
    /\ searchLog = <<>>
    /\ argShape = None
    /\ argK = None
    /\ encoded = None
    /\ argId = None
    /\ argDocs = <<>>
    /\ argLimit = None
    /\ docsAfter = <<>>
    /\ pre = Before(EmptyStore)
    /\ changed = FALSE
    /\ docsChanged = FALSE
    /\ vecsChanged = FALSE
    /\ earlierKept = None
    /\ twice = None
    /\ fresh = None
    /\ systemDocuments = <<>>
    /\ files = EmptyDirectory
    /\ query = ""
    /\ isStock = None
    /\ intent = None
    /\ stockSymbols = None
    /\ context = None
    /\ answer = None

\* The call `name` ended as outcome o.
Apply(name, o) ==
    /\ index' = o.store.index
    /\ documents' = o.store.documents
    /\ dimension' = o.store.dimension
    /\ op' = name
    /\ status' = o.status
    /\ raised' = o.raised
    /\ results' = o.results
    /\ searchLog' = o.searched
    /\ argId' = None
    /\ UNCHANGED <<argDocs, argLimit, docsAfter>>
    /\ pre' = Before(StoreNow)
    /\ changed' = (o.store # StoreNow)
    /\ docsChanged' = (o.store.documents # documents)
    /\ vecsChanged' = (Vectors(o.store) # Vectors(StoreNow))

\* The model keeps at most MaxVecs vectors and MaxVecs documents.
WithinBounds(o) ==
    /\ Len(o.store.documents) <= MaxVecs
    /\ IF IsNone(o.store.index) THEN TRUE
       ELSE Len(Val(o.store.index).xb) <= MaxVecs

BuildIndex ==
    \E E \in EmbeddingLists, D \in DocumentLists :
        LET o == build_index(StoreNow, E, D)
        IN
        /\ Apply("build_index", o)
        /\ argShape' = Some(ShapeOf(E))
        /\ argK' = None
        /\ encoded' = None
        /\ twice' = None
        /\ earlierKept' = None
        /\ fresh' = None
        /\ UNCHANGED appVars

RebuildIndex ==
    \E E \in EmbeddingLists, D \in DocumentLists :
        LET o == rebuild_index(StoreNow, E, D)
        IN
        /\ Apply("rebuild_index", o)
        /\ argShape' = Some(ShapeOf(E))
        /\ argK' = None
        /\ encoded' = None
        /\ twice' = Some(rebuild_index(o.store, E, D).store)
        /\ earlierKept' = None
        /\ fresh' = Some(build_index(EmptyStore, E, D).store)
        /\ UNCHANGED appVars

AddDocuments ==
    \E E \in EmbeddingLists, D \in DocumentLists :
        LET o == add_documents(StoreNow, E, D)
        IN
        /\ WithinBounds(o)
        /\ Apply("add_documents", o)
        /\ argShape' = Some(ShapeOf(E))
        /\ argK' = None
        /\ encoded' = None
        /\ twice' = None
        /\ earlierKept' = Some(/\ IsPrefix(documents, o.store.documents)
                               /\ IsPrefix(Vectors(StoreNow),
                                           Vectors(o.store)))
        /\ fresh' = None
        /\ UNCHANGED appVars

Search ==
    \E q \in QueryPool, k \in 0..MaxK :
        LET o == [search(StoreNow, q, k) EXCEPT !.searched = <<q>>]
        IN
        /\ Apply("search", o)
        /\ argShape' = None
        /\ argK' = Some(k)
        /\ encoded' = None
        /\ twice' = None
        /\ earlierKept' = None
        /\ fresh' = None
        /\ UNCHANGED appVars

RetrieveDocuments ==
    \E ok \in BOOLEAN, v \in QueryPool, k \in 0..MaxK :
        LET o == retrieve_documents(StoreNow, encode_query(ok, v), k)
        IN
        /\ Apply("retrieve_documents", o)
        /\ argShape' = None
        /\ argK' = Some(k)
        /\ encoded' = encode_query(ok, v)
        /\ twice' = None
        /\ earlierKept' = None
        /\ fresh' = None
        /\ UNCHANGED appVars

\* A get_document call with any id from one below the first position to one
\* past the largest the store can hold.
GetDocument ==
    \E doc_id \in DocIds :
        /\ results' = get_document(StoreNow, doc_id)
        /\ argId' = Some(doc_id)
        /\ op' = "get_document"
        /\ status' = "ok"
        /\ raised' = FALSE
        /\ searchLog' = <<>>
        /\ argShape' = None
        /\ argK' = None
        /\ encoded' = None
        /\ pre' = Before(StoreNow)
        /\ changed' = FALSE
        /\ docsChanged' = FALSE
        /\ vecsChanged' = FALSE
        /\ twice' = None
        /\ earlierKept' = None
        /\ fresh' = None
        /\ UNCHANGED appVars
        /\ UNCHANGED <<index, documents, dimension>>
        /\ UNCHANGED <<argDocs, argLimit, docsAfter>>

Next ==
    \/ BuildIndex
    \/ RebuildIndex
    \/ AddDocuments
    \/ Search
    \/ RetrieveDocuments
    \/ GetDocument

Spec == Init /\ [][Next]_vars

\* ------------------------------------------------------ query classification
\* utils.is_stock_query(query): some stock keyword is a substring of the
\* lower-cased query.
stock_keywords ==
    <<"stock", "share", "shares", "price", "ticker", "market", "trading",
      "volume", "chart", "performance", "trend", "bull", "bear",
      "nasdaq", "nyse", "sp500", "s&p", "dow", "equity", "securities">>
is_stock_query(q) ==
    LET query_lower == Lower(q)
    IN  \E n \in 1..Len(stock_keywords) : Contains(query_lower, stock_keywords[n])

\* The categories of get_query_intent with their words, in the order of its
\* if statements.
IntentCategories ==
    << [intent |-> "price_inquiry",
        words |-> {"price", "cost", "worth", "value", "trading at"}],
       [intent |-> "performance_inquiry",
        words |-> {"performance", "trend", "up", "down", "gain", "loss"}],
       [intent |-> "comparison",
        words |-> {"compare", "vs", "versus", "better", "difference"}],
       [intent |-> "analysis_request",
        words |-> {"analyze", "analysis", "report", "summary", "review"}],
       [intent |-> "prediction_request",
        words |-> {"predict", "forecast", "future", "will", "expect"}],
       [intent |-> "news_inquiry",
        words |-> {"news", "update", "latest", "recent", "current"}] >>

\* utils.get_query_intent(query): the intent of the first category one of
\* whose words is a substring of the lower-cased query, else
\* 'general_inquiry'.
get_query_intent(q) ==
    LET query_lower == Lower(q)
        hits == {c \in 1..Len(IntentCategories) :
                    \E w \in IntentCategories[c].words : Contains(query_lower, w)}
    IN  IF hits = {} THEN "general_inquiry"
        ELSE IntentCategories[CHOOSE c \in hits : \A e \in hits : c <= e].intent

known_symbols ==
    {"AAPL", "MSFT", "GOOGL", "GOOG", "AMZN", "TSLA", "META", "NFLX",
     "NVDA", "AMD", "INTC", "CRM", "ORCL", "IBM", "ADBE", "PYPL",
     "UBER", "LYFT", "SPOT", "TWTR", "SNAP", "PINS", "SQ", "SHOP",
     "JPM", "BAC", "WFC", "GS", "MS", "C", "V", "MA", "AXP",
     "JNJ", "PFE", "MRK", "ABBV", "TMO", "UNH", "CVS", "WBA",
     "KO", "PEP", "MCD", "SBUX", "NKE", "DIS", "HD", "WMT",
     "SPY", "QQQ", "IWM", "VTI", "VOO"}

\* company_mappings, in the order of the dict.
company_mappings ==
    << <<"apple", "AAPL">>, <<"microsoft", "MSFT">>, <<"google", "GOOGL">>,
       <<"alphabet", "GOOGL">>, <<"amazon", "AMZN">>, <<"tesla", "TSLA">>,
       <<"facebook", "META">>, <<"meta", "META">>, <<"netflix", "NFLX">>,
       <<"nvidia", "NVDA">>, <<"intel", "INTC">>, <<"amd", "AMD">>,
       <<"oracle", "ORCL">>, <<"salesforce", "CRM">>, <<"adobe", "ADBE">>,
       <<"paypal", "PYPL">>, <<"uber", "UBER">>, <<"spotify", "SPOT">>,
       <<"twitter", "TWTR">>, <<"snapchat", "SNAP">>,
       <<"pinterest", "PINS">>, <<"square", "SQ">>, <<"shopify", "SHOP">>,
       <<"jpmorgan", "JPM">>, <<"goldman", "GS">>, <<"visa", "V">>,
       <<"mastercard", "MA">>, <<"johnson", "JNJ">>, <<"pfizer", "PFE">>,
       <<"merck", "MRK">>, <<"cocacola", "KO">>, <<"coca-cola", "KO">>,
       <<"pepsi", "PEP">>, <<"mcdonald", "MCD">>, <<"mcdonalds", "MCD">>,
       <<"starbucks", "SBUX">>, <<"nike", "NKE">>, <<"disney", "DIS">>,
       <<"walmart", "WMT">>, <<"homedepot", "HD">> >>

\* \w of the regular expressions.
IsWordChar(c) ==
    \/ IsUpper(c)
    \/ IsLower(c)
    \/ c \in {"0", "1", "2", "3", "4", "5", "6", "7", "8", "9", "_"}

\* A word boundary \b lies before position i of s.
BoundaryBefore(s, i) ==
    LET left == IF i = 1 THEN FALSE ELSE IsWordChar(CharAt(s, i - 1))
        right == IF i > Len(s) THEN FALSE ELSE IsWordChar(CharAt(s, i))
    IN  left # right

\* re.findall(r'\b[A-Z]{1,5}\b', s) from position i on: the runs of one to
\* five upper-case letters with a word boundary on each side, left to right.
RECURSIVE potential_symbols(_, _)
potential_symbols(s, i) ==
    IF i > Len(s) THEN <<>>
    ELSE LET ends == {j \in i..Min(i + 4, Len(s)) :
                         /\ \A m \in i..j : IsUpper(CharAt(s, m))
                         /\ BoundaryBefore(s, j + 1)}
         IN  IF BoundaryBefore(s, i) /\ ends # {}
             THEN LET j == CHOOSE e \in ends : \A f \in ends : f <= e
                  IN  <<SubSeq(s, i, j)>> \o potential_symbols(s, j + 1)
             ELSE potential_symbols(s, i + 1)

\* Adding to a list instead of a set: a symbol found twice is kept twice.
symbols_append(symbols, symbol) == Append(symbols, symbol)

\* symbols.add(symbol), the set kept as the list of its members in the
\* order they were first added.
symbols_add(symbols, symbol) ==
    IF \E n \in 1..Len(symbols) : symbols[n] = symbol
    THEN symbols
    ELSE Append(symbols, symbol)

\* The first loop of extract_stock_symbols over the matches from the n-th on.
RECURSIVE add_known(_, _, _)
add_known(potential, n, symbols) ==
    IF n > Len(potential) THEN symbols
    ELSE add_known(potential, n + 1,
                   IF potential[n] \in known_symbols
                   THEN symbols_add(symbols, potential[n])
                   ELSE symbols)

\* Its second loop over company_mappings from the n-th entry on.
RECURSIVE add_companies(_, _, _)
add_companies(query_lower, n, symbols) ==
    IF n > Len(company_mappings) THEN symbols
    ELSE add_companies(query_lower, n + 1,
                       IF Contains(query_lower, company_mappings[n][1])
                       THEN symbols_add(symbols, company_mappings[n][2])
                       ELSE symbols)

\* utils.extract_stock_symbols(query): the members of the set `symbols`, in
\* the order they were added.
extract_stock_symbols(q) ==
    add_companies(Lower(q), 1, add_known(potential_symbols(q, 1), 1, <<>>))

\* list(symbols): the members of the set in any order.
Orderings(symbols) ==
    {[n \in 1..Len(symbols) |-> symbols[p[n]]] :
        p \in Permutations(1..Len(symbols))}

\* The queries classified: up to MaxPhrases of these phrases, separated by
\* blanks.
Phrases ==
    <<"Compare AAPL", "vs MSFT", "latest update", "apple stock", "price",
      "metal SHARES", "Plan C">>
MaxPhrases == 2
RECURSIVE QueriesOf(_)
QueriesOf(n) ==
    IF n = 0 THEN {""}
    ELSE LET shorter == QueriesOf(n - 1)
         IN  shorter \cup
             {IF q = "" THEN Phrases[m] ELSE q \o " " \o Phrases[m] :
                 q \in shorter, m \in 1..Len(Phrases)}
Queries == QueriesOf(MaxPhrases)

\* The queries put to the application.
AppQueries == {"Compare AAPL vs MSFT", "apple stock", "latest update"}

\* What the three functions return on each query.
Classified ==
    [q \in Queries \cup AppQueries |->
        [is_stock |-> is_stock_query(q),
         intent |-> get_query_intent(q),
         symbols |-> extract_stock_symbols(q)]]

\* ---------------------------------------------------------- the application
\* The embedding the provider computes for a document's content.
Embed(doc) == IF doc.content = "aa" THEN <<0, 0>> ELSE <<10, 10>>

\* DocumentProcessor.generate_embeddings(documents): [] for no documents or
\* when model.encode raises, else one vector per document.
generate_embeddings(ok, D) ==
    IF D = <<>> \/ ~ok
    THEN Embeddings(<<>>, FALSE)
    ELSE Embeddings([i \in 1..Len(D) |-> Embed(D[i])], FALSE)

\* initialize_system(): a new VectorStore, built from what was loaded when
\* there are embeddings.
initialize_system(D, E) ==
    IF E.rows # <<>>
    THEN build_index(EmptyStore, E, D)
    ELSE Outcome(EmptyStore, "NoEmbeddings", FALSE, <<>>)

\* refresh_document_index resetting index and documents but not dimension
\* when nothing was loaded.
refresh_document_index_keeps_dimension(s, D, E) ==
    IF D # <<>>
    THEN IF E.rows # <<>>
         THEN rebuild_index(s, E, D)
         ELSE Outcome(s, "NoEmbeddings", FALSE, <<>>)
    ELSE Outcome(Store(None, <<>>, s.dimension), "ok", FALSE, <<>>)

\* refresh_document_index(system), given what load_documents and
\* generate_embeddings return: a rebuild when there are documents and
\* embeddings, a warning when there are documents and no embeddings, and the
\* three fields reset when there are no documents.
refresh_document_index(s, D, E) ==
    IF D # <<>>
    THEN IF E.rows # <<>>
         THEN rebuild_index(s, E, D)
         ELSE Outcome(s, "NoEmbeddings", FALSE, <<>>)
    ELSE Outcome(EmptyStore, "ok", FALSE, <<>>)

\* The application's call `name` on what was loaded ended as o; the handler
\* assigns system['documents'] last, so not when the call raised.
ApplyApp(name, D, E, o) ==
    /\ Apply(name, o)
    /\ systemDocuments' = IF o.raised THEN systemDocuments ELSE D
    /\ UNCHANGED queryVars
    /\ argShape' = Some(ShapeOf(E))
    /\ argK' = None
    /\ encoded' = None
    /\ twice' = None
    /\ earlierKept' = None
    /\ fresh' = None

\* initialize_system runs once (st.cache_resource), before anything else, on
\* the directory as it is when the application starts.
InitializeSystem ==
    /\ op = "init"
    /\ \E dir \in Directories, ok \in BOOLEAN :
         LET D == Loaded[dir]
             E == generate_embeddings(ok, D)
         IN  /\ files' = dir
             /\ ApplyApp("initialize_system", D, E, initialize_system(D, E))

\* refresh_document_index(system) run as the call `name` when the directory
\* has become dir.
RefreshTo(name, dir, ok) ==
    LET D == Loaded[dir]
        E == generate_embeddings(ok, D)
    IN  /\ files' = dir
        /\ ApplyApp(name, D, E, refresh_document_index(StoreNow, D, E))

\* The directories a refresh_document_index call made on its own finds: no
\* file, and one that loads beside one that does not.
RefreshDirectories ==
    {EmptyDirectory,
     [EmptyDirectory EXCEPT ![1] = "text", ![2] = "unreadable"]}

\* refresh_document_index, after the directory changed.
RefreshDocumentIndex ==
    /\ op # "init"
    /\ \E dir \in RefreshDirectories, ok \in BOOLEAN :
         RefreshTo("refresh_document_index", dir, ok)

\* What a file saved by save_uploaded_file can hold: the bytes uploaded,
\* which open() reads back, and which PdfReader may reject.
Uploadable(n) ==
    IF Extension[n] = ".pdf"
    THEN {"text", "blank", "unreadable"}
    ELSE {"text", "blank"}

\* handle_file_upload: every uploaded file with a supported extension is
\* saved under a new name, and the index is refreshed when one was saved.
UploadFiles ==
    /\ op # "init"
    /\ \E dir \in Directories, ok \in BOOLEAN :
         /\ dir # files
         /\ \A n \in 1..Len(FileNames) :
              IF dir[n] = files[n] THEN TRUE
              ELSE /\ files[n] = "absent"
                   /\ Extension[n] \in supported_extensions
                   /\ dir[n] \in Uploadable(n)
         /\ RefreshTo("handle_file_upload", dir, ok)

\* The Remove button of render_document_manager on one of the files
\* list_uploaded_files shows: os.remove, then refresh_document_index.
RemoveFile ==
    /\ op # "init"
    /\ \E n \in 1..Len(FileNames), ok \in BOOLEAN :
         /\ files[n] # "absent"
         /\ Extension[n] \in supported_extensions
         /\ RefreshTo("remove_file", [files EXCEPT ![n] = "absent"], ok)

\* The vectors the sentence encoder, which also embedded the documents,
\* gives for the queries.
AppQueryVectors == {<<1, 1>>, <<10, 10>>}

\* top_k of the retrieve_documents call of process_query.
TopK == 3

\* LLMHandler.generate_response: the stripped text of the model's response,
\* or the fallback response when there is no client or the call raises.
generate_response(llm) ==
    IF llm = "responds" THEN "response" ELSE "fallback"

\* process_query(system, query), given what retrieve_documents returned as
\* r, the symbol list, how the stock data fetch ends and how the language
\* model call ends: [raised, is_stock, stock_symbols, context, answer].  The
\* symbols are extracted only for a stock query; the context is the contents
\* of the retrieved documents joined by blank lines; the answer carries a
\* chart when stock data came for the first symbol.
process_query(q, r, symbols, stock, llm) ==
    LET is_stock == Classified[q].is_stock
        stock_symbols == IF is_stock THEN symbols ELSE <<>>
        ctx == Join([n \in 1..Len(r.results) |-> r.results[n].content],
                    "\n\n")
    IN  [raised |-> r.raised,
         is_stock |-> is_stock,
         stock_symbols |-> stock_symbols,
         context |-> IF r.raised THEN None ELSE Some(ctx),
         answer |-> IF r.raised THEN None
                    ELSE Some([answer |-> generate_response(llm),
                               chart |-> /\ is_stock
                                         /\ stock_symbols # <<>>
                                         /\ stock = "data"])]

\* A query typed into the chat, once the system is initialized.
ProcessQuery ==
    /\ op # "init"
    /\ \E ok \in BOOLEAN, v \in AppQueryVectors :
         LET r == retrieve_documents(StoreNow, encode_query(ok, v), TopK)
         IN
         /\ Apply("process_query", r)
         /\ argShape' = None
         /\ argK' = Some(TopK)
         /\ encoded' = encode_query(ok, v)
         /\ twice' = None
         /\ earlierKept' = None
         /\ fresh' = None
         /\ UNCHANGED <<systemDocuments, files>>
         /\ \E q \in AppQueries, stock \in {"data", "raises"},
               llm \in {"responds", "raises"} :
              \E symbols \in Orderings(Classified[q].symbols) :
                 LET o == process_query(q, r, symbols, stock, llm)
                 IN
                 /\ query' = q
                 /\ isStock' = Some(o.is_stock)
                 /\ intent' = None
                 /\ stockSymbols' = Some(o.stock_symbols)
                 /\ context' = o.context
                 /\ answer' = o.answer

NextApp ==
    \/ InitializeSystem
    \/ UploadFiles
    \/ RemoveFile
    \/ ProcessQuery

SpecApp == Init /\ [][NextApp]_vars

\* The store under the calls that change it: those of its own interface and
\* the application's refresh.
NextStore ==
    \/ BuildIndex
    \/ RebuildIndex
    \/ AddDocuments
    \/ RefreshDocumentIndex

SpecStore == Init /\ [][NextStore]_vars

\* ------------------------------------- the query processor's list functions
\* A list of result dicts, with no call made on it yet.
InitQP ==
    /\ index = EmptyStore.index
    /\ documents = EmptyStore.documents
    /\ dimension = EmptyStore.dimension
    /\ op = "init"
    /\ status = "ok"
    /\ raised = FALSE
    /\ results = <<>>
    /\ searchLog = <<>>
    /\ argShape = None
    /\ argK = None
    /\ encoded = None
    /\ argId = None
    /\ argDocs \in RankedLists
    /\ argLimit = None
    /\ docsAfter = argDocs
    /\ pre = Before(EmptyStore)
    /\ changed = FALSE
    /\ docsChanged = FALSE
    /\ vecsChanged = FALSE
    /\ earlierKept = None
    /\ twice = None
    /\ fresh = None
    /\ systemDocuments = <<>>
    /\ files = EmptyDirectory
    /\ query = ""
    /\ isStock = None
    /\ intent = None
    /\ stockSymbols = None
    /\ context = None
    /\ answer = None

\* The call `name` with the limit `lim` on the list ended as o.
ApplyQP(name, lim, o) ==
    /\ op' = name
    /\ argDocs' = docsAfter
    /\ argLimit' = Some(lim)
    /\ results' = o.returned
    /\ docsAfter' = o.documents
    /\ UNCHANGED <<index, documents, dimension, status, raised, searchLog,
                   argShape, argK, encoded, argId, pre, changed,
                   docsChanged, vecsChanged, earlierKept, twice, fresh, appVars>>

FilterDocuments ==
    \E threshold \in Thresholds :
        ApplyQP("filter_documents_by_threshold", threshold,
                filter_documents_by_threshold(docsAfter, threshold))

PrepareContext ==
    \E max_length \in MaxLengths :
        ApplyQP("prepare_context", max_length,
                prepare_context(docsAfter, max_length))

NextQP ==
    \/ FilterDocuments
    \/ PrepareContext

SpecQP == InitQP /\ [][NextQP]_vars

\* ------------------------------------------------- the classifying functions
\* One of the three functions of utils.py applied to a query.
IsStockQuery ==
    \E q \in Queries :
        /\ op' = "is_stock_query"
        /\ query' = q
        /\ isStock' = Some(Classified[q].is_stock)
        /\ intent' = None
        /\ stockSymbols' = None
        /\ UNCHANGED <<index, documents, dimension, status, raised, results,
                       searchLog, argShape, argK, encoded, argId, argDocs,
                       argLimit, docsAfter, pre, changed, docsChanged,
                       vecsChanged, earlierKept, twice, fresh, systemDocuments,
                       files,
                       context, answer>>

GetQueryIntent ==
    \E q \in Queries :
        /\ op' = "get_query_intent"
        /\ query' = q
        /\ isStock' = None
        /\ intent' = Some(Classified[q].intent)
        /\ stockSymbols' = None
        /\ UNCHANGED <<index, documents, dimension, status, raised, results,
                       searchLog, argShape, argK, encoded, argId, argDocs,
                       argLimit, docsAfter, pre, changed, docsChanged,
                       vecsChanged, earlierKept, twice, fresh, systemDocuments,
                       files,
                       context, answer>>

ExtractStockSymbols ==
    \E q \in Queries :
        \E symbols \in Orderings(Classified[q].symbols) :
            /\ op' = "extract_stock_symbols"
            /\ query' = q
            /\ isStock' = None
            /\ intent' = None
            /\ stockSymbols' = Some(symbols)
            /\ UNCHANGED <<index, documents, dimension, status, raised,
                           results, searchLog, argShape, argK, encoded,
                           argId, argDocs, argLimit, docsAfter, pre, changed,
                           docsChanged, vecsChanged, earlierKept, twice, fresh,
                           systemDocuments, files, context, answer>>

NextClassify ==
    \/ IsStockQuery
    \/ GetQueryIntent
    \/ ExtractStockSymbols

SpecClassify == Init /\ [][NextClassify]_vars

\* ----------------------------------------------------------------- claims
Mutating == {"build_index", "rebuild_index", "add_documents"}
Built == ~IsNone(index)
WasBuilt == ~IsNone(pre.d)
NTotal == Len(Val(index).xb)

\* An embeddings argument of that shape is a matrix of row length d.
ShapeFits(shape, d) == shape.n > 0 /\ ~shape.nested /\ shape.dims = {d}

\* C1 (as claimed): after a successful build_index, rebuild_index or
\* add_documents the index holds as many vectors as there are stored documents
\* (so a call with lists of different lengths cannot have been applied).
C1_CountInvariant ==
    (op \in Mutating /\ status = "ok") => NTotal = Len(documents)

\* C2: add_documents on a built index with a non-empty embeddings list that is
\* not a matrix of the index's dimension raises DimensionMismatch and leaves
\* index, documents (ids included) and dimension as they were, so that every
\* search answers as before.
C2_AddMismatchLeavesStore ==
    (op = "add_documents" /\ WasBuilt
        /\ Val(argShape).n > 0
        /\ ~ShapeFits(Val(argShape), Val(pre.d)))
    => /\ status = "DimensionMismatch"
       /\ raised
       /\ ~changed
       /\ Built /\ Val(index).d = Val(pre.d) /\ dimension = pre.dimension

C2_Witness ==
    /\ op = "add_documents" /\ status = "DimensionMismatch" /\ raised
    /\ pre.d = Some(2) /\ Built /\ Val(index).d = 2
    /\ argShape = Some([n |-> 1, dims |-> {3}, nested |-> FALSE])

\* The three fields agree with one another: all unset with no documents, or
\* an index whose rows all have the store's dimension.
Consistent(s) ==
    IF IsNone(s.index)
    THEN IsNone(s.dimension) /\ s.documents = <<>>
    ELSE /\ s.dimension = Some(Val(s.index).d)
         /\ \A i \in 1..Len(Val(s.index).xb) :
                Len(Val(s.index).xb[i]) = Val(s.index).d

\* C3 (as claimed): a build_index or rebuild_index call that does not succeed
\* leaves index, documents and dimension exactly as they were, and after any
\* mutating call that did not succeed the three fields still agree with one
\* another.
C3_FailedBuildLeavesStore ==
    /\ (op \in {"build_index", "rebuild_index"} /\ status # "ok")
        => ~changed /\ dimension = pre.dimension
    /\ (op \in Mutating /\ status # "ok")
        => Consistent(StoreNow)

\* C4 (as claimed): once the store has a dimension, no build_index,
\* rebuild_index or add_documents call changes it.
C4_DimensionNeverChanges ==
    (op \in Mutating /\ ~IsNone(pre.dimension)) => dimension = pre.dimension

\* C4 (amended): add_documents on a built index never changes the dimension
\* and rejects, unapplied, embeddings of another dimension; a build_index or
\* rebuild_index that succeeds sets the dimension to that of its own
\* embeddings, whatever it was before.
C4_DimensionFixedUntilRebuild ==
    /\ (op = "add_documents" /\ WasBuilt)
        => /\ dimension = pre.dimension
           /\ (Val(argShape).n > 0
                 /\ ~ShapeFits(Val(argShape), Val(pre.dimension)))
                => raised /\ ~changed
    /\ (op \in {"build_index", "rebuild_index"} /\ status = "ok")
        => /\ Val(argShape).dims = {Val(dimension)}
           /\ Val(index).d = Val(dimension)

\* A successful rebuild that found dimension 2 and left dimension 3.
C4_Witness ==
    /\ op = "rebuild_index" /\ status = "ok"
    /\ pre.dimension = Some(2) /\ dimension = Some(3)

C6_EmptyBuildLeavesStore ==
    (op = "build_index" /\ Val(argShape).n = 0)
    => status = "EmptyInput" /\ ~changed /\ Built = WasBuilt

C6_Witness ==
    /\ op = "build_index" /\ status = "EmptyInput"
    /\ argShape = Some([n |-> 0, dims |-> {}, nested |-> FALSE])
    /\ WasBuilt /\ Built /\ documents # <<>>

\* Ascending by distance.
Ascending(pairs) ==
    \A i \in 1..(Len(pairs) - 1) : pairs[i][2] <= pairs[i + 1][2]

\* Each pair is the id of a stored vector with its squared distance to q, no
\* id twice, and no vector left out is nearer than one returned.
KNearest(pairs, xb, q) ==
    /\ \A i \in 1..Len(pairs) :
         /\ pairs[i][1] \in 0..(Len(xb) - 1)
         /\ pairs[i][2] = L2(xb[pairs[i][1] + 1], q)
    /\ \A i, j \in 1..Len(pairs) : i # j => pairs[i][1] # pairs[j][1]
    /\ \A v \in 0..(Len(xb) - 1) :
         (\A i \in 1..Len(pairs) : pairs[i][1] # v)
            => \A i \in 1..Len(pairs) : pairs[i][2] <= L2(xb[v + 1], q)

\* C7 (as claimed): on a built index, search(q, k) with a query of the index's
\* dimension returns min(k, number of vectors) pairs, the nearest ones by
\* squared Euclidean distance, ascending.
C7_SearchReturnsKNearest ==
    (op = "search" /\ Built /\ Len(searchLog[1]) = Val(index).d)
    => /\ Len(results) = Min(Val(argK), NTotal)
       /\ Ascending(results)
       /\ KNearest(results, Val(index).xb, searchLog[1])

\* C8: search without an index returns the NotBuilt outcome (an empty list),
\* raises nothing and changes nothing.
C8_SearchUnbuilt ==
    (op = "search" /\ ~WasBuilt)
    => /\ status = "NotBuilt"
       /\ ~raised
       /\ results = <<>>
       /\ ~changed /\ ~Built

C8_Witness ==
    op = "search" /\ status = "NotBuilt" /\ ~WasBuilt /\ ~raised

\* C9: retrieve_documents raises nothing and changes nothing; it returns the
\* empty list when there is no index or when encode_query returned None, and
\* in the latter case hands no vector at all to search.
C9_RetrieveDegradesToEmpty ==
    op = "retrieve_documents"
    => /\ ~raised
       /\ ~changed
       /\ ~WasBuilt => results = <<>>
       /\ IsNone(encoded)
            => /\ results = <<>>
               /\ searchLog = <<>>
               /\ status = "EncodingFailed"
       /\ ~IsNone(encoded) => searchLog = <<Val(encoded)>>

C9_Witness ==
    /\ op = "retrieve_documents" /\ IsNone(encoded)
    /\ Built /\ NTotal = 2 /\ Len(documents) = 2
    /\ results = <<>> /\ searchLog = <<>>

\* C10: search on a built index with a query whose length is not the index's
\* dimension ends as DimensionMismatch, with an empty result, and leaves
\* index, documents and dimension as they were.
C10_SearchMismatch ==
    (op = "search" /\ WasBuilt /\ Len(searchLog[1]) # Val(pre.d))
    => /\ status = "DimensionMismatch"
       /\ results = <<>>
       /\ ~changed

C10_Witness ==
    /\ op = "search" /\ status = "DimensionMismatch" /\ ~changed
    /\ pre.d = Some(2) /\ Len(searchLog[1]) = 3

\* R holds the entries of J, each once, highest similarity first, two entries
\* of equal similarity in the order they have in J.
StableDescending(R, J) ==
    /\ Len(R) = Len(J)
    /\ \E p \in Permutations(1..Len(J)) :
         /\ \A k \in 1..Len(J) : R[k] = J[p[k]]
         /\ \A k, l \in 1..Len(J) :
              k < l => \/ SimGreater(J[p[k]].similarity_score,
                                     J[p[l]].similarity_score)
                       \/ /\ J[p[k]].similarity_score[2]
                               = J[p[l]].similarity_score[2]
                          /\ p[k] < p[l]

\* The documents of the pairs VectorStore.search returns for the last
\* retrieve_documents call, in the order search returns them.
SearchedDocs ==
    IF searchLog = <<>> THEN <<>>
    ELSE JoinDocs(StoreNow, search(StoreNow, searchLog[1], Val(argK)).results)

\* C11: what retrieve_documents returns is sorted by similarity, highest
\* first, which is by distance, lowest first; entries of equal similarity
\* stand in the order in which search returned them.
C11_RetrieveSortedStable ==
    op = "retrieve_documents"
    => /\ \A i, j \in 1..Len(results) :
            i < j => /\ ~SimGreater(results[j].similarity_score,
                                    results[i].similarity_score)
                     /\ results[i].distance <= results[j].distance
       /\ StableDescending(results, SearchedDocs)

\* Two different documents returned at the same distance.
C11_Witness ==
    /\ op = "retrieve_documents" /\ Len(results) = 2
    /\ results[1].distance = results[2].distance
    /\ results[1].filename # results[2].filename
    /\ results = SearchedDocs

\* The (id, distance) pairs VectorStore.search returns for the last
\* retrieve_documents call.
SearchedPairs ==
    IF searchLog = <<>> THEN <<>>
    ELSE search(StoreNow, searchLog[1], Val(argK)).results

\* The pair's id is the position of a stored document.
Resolves(pair) == 0 <= pair[1] /\ pair[1] < Len(documents)

\* The result r is the stored document of that pair with the pair's distance
\* and the similarity 1 / (1 + distance).
ResultOf(r, pair) ==
    /\ r.content = documents[pair[1] + 1].content
    /\ r.filename = documents[pair[1] + 1].filename
    /\ r.distance = pair[2]
    /\ r.similarity_score[1] * (1 + pair[2]) = r.similarity_score[2]

\* C12: retrieve_documents raises nothing; a pair returned by search whose id
\* is not the position of a stored document gives no result, and every other
\* pair gives exactly one, carrying that document's content and filename,
\* the pair's distance and the similarity 1 / (1 + distance).
C12_UnresolvedPairsDropped ==
    op = "retrieve_documents"
    => LET kept == SelectSeq(SearchedPairs, Resolves)
       IN  /\ ~raised
           /\ Len(results) = Len(kept)
           /\ \E p \in Permutations(1..Len(kept)) :
                \A i \in 1..Len(kept) : ResultOf(results[i], kept[p[i]])

\* search returned one pair, for a vector that has no document, and
\* retrieve_documents returned nothing.
C12_Witness ==
    /\ op = "retrieve_documents" /\ ~raised /\ status = "ok"
    /\ Len(SearchedPairs) = 1
    /\ ~Resolves(SearchedPairs[1])
    /\ results = <<>>

\* C13: get_document raises nothing and changes nothing; an id outside
\* 0..len(documents)-1 (negative, the count, or larger) gets the not-found
\* value, an id inside gets the document stored at that position.
C13_GetDocumentTotal ==
    op = "get_document"
    => /\ ~raised
       /\ ~changed
       /\ IF 0 <= Val(argId) /\ Val(argId) <= Len(documents) - 1
          THEN results = Some(documents[Val(argId) + 1])
          ELSE results = None

\* Not found on a store with documents: the id is the count.
C13_Witness ==
    /\ op = "get_document" /\ documents # <<>> /\ results = None
    /\ Val(argId) = Len(documents)

\* C14: filter_documents_by_threshold(R, t) returns the entries of R whose
\* similarity is >= t, each once, in the order they have in R, and leaves R
\* as it was.
C14_FilterExactStable ==
    op = "filter_documents_by_threshold"
    => LET keep == {i \in 1..Len(argDocs) :
                        SimGeq(argDocs[i].similarity_score, Val(argLimit))}
       IN  /\ Len(results) = Cardinality(keep)
           /\ \E f \in [1..Len(results) -> keep] :
                /\ \A i, j \in 1..Len(results) : i < j => f[i] < f[j]
                /\ \A i \in 1..Len(results) : results[i] = argDocs[f[i]]
           /\ docsAfter = argDocs

\* Threshold 1/2 on a list of three entries: one at exactly 1/2 is kept, one
\* below is dropped.
C14_Witness ==
    /\ op = "filter_documents_by_threshold"
    /\ argLimit = Some(<<1, 2>>)
    /\ Len(argDocs) = 3 /\ Len(results) = 2
    /\ \E i \in 1..2 : results[i].similarity_score = <<1, 2>>

\* The blocks in the text prepare_context returned for the last call.
BlocksReturned == context_parts(argDocs, Val(argLimit), <<>>, 0)

\* C15 (as claimed): when the text prepare_context returns holds two or more
\* blocks, its length is at most max_length, unless the first block alone is
\* longer than max_length.
C15_ContextWithinMaxLength ==
    (op = "prepare_context"
        /\ Len(BlocksReturned) >= 2
        /\ Len(doc_content(argDocs[1])) <= Val(argLimit))
    => Len(results) <= Val(argLimit)

\* The summed lengths of the blocks of the first n entries of docs.
RECURSIVE BlockLength(_, _)
BlockLength(docs, n) ==
    IF n = 0 THEN 0
    ELSE BlockLength(docs, n - 1) + Len(doc_content(docs[n]))

\* The first n entries are within max_length, or n is 1.
PrefixFits(docs, n, max_length) ==
    n = 1 \/ BlockLength(docs, n) <= max_length

\* C16: prepare_context returns "" for an empty list; otherwise the text is
\* made of the blocks of the first n entries, in order, where n is the
\* longest prefix whose summed block length is within max_length, and 1 when
\* not even the first block is (max_length 0 included): nothing after the
\* first block that does not fit is in the text.
C16_ContextIsLongestPrefix ==
    op = "prepare_context"
    => IF argDocs = <<>>
       THEN results = ""
       ELSE \E n \in 1..Len(argDocs) :
              /\ PrefixFits(argDocs, n, Val(argLimit))
              /\ \A m \in (n + 1)..Len(argDocs) :
                    ~PrefixFits(argDocs, m, Val(argLimit))
              /\ results = Join([i \in 1..n |-> doc_content(argDocs[i])], "\n")

\* Three entries: the second does not fit after the first, the third would
\* have, and the text is the first block alone.
C16_Witness ==
    /\ op = "prepare_context" /\ Len(argDocs) = 3
    /\ ~PrefixFits(argDocs, 2, Val(argLimit))
    /\ Len(doc_content(argDocs[1])) + Len(doc_content(argDocs[3]))
          <= Val(argLimit)
    /\ results = doc_content(argDocs[1])

\* C17: rebuild_index called a second time with the same embeddings and
\* documents leaves the store as the first call left it, so every search
\* (any query vector, any k) answers the same after the second rebuild as
\* after the first.
C17_RebuildIdempotent ==
    op = "rebuild_index"
    => /\ twice = Some(StoreNow)
       /\ \A q \in QueryPool, k \in 0..MaxK :
            search(Val(twice), q, k).results = search(StoreNow, q, k).results

\* A successful rebuild of a built store, with two vectors to search.
C17_Witness ==
    /\ op = "rebuild_index" /\ status = "ok" /\ WasBuilt /\ changed
    /\ NTotal = 2 /\ Len(documents) = 2
    /\ twice = Some(StoreNow)
    /\ search(StoreNow, <<1, 1>>, 2).results # <<>>

\* C18 (as claimed): whatever the arguments and the store before,
\* rebuild_index leaves the store (index vectors, documents, dimension) as
\* build_index with the same arguments leaves a store emptied first.
C18_RebuildIsDiscardThenBuild ==
    op = "rebuild_index" => fresh = Some(StoreNow)

\* C18 (amended): a rebuild_index that succeeds leaves the store as
\* build_index with the same arguments leaves a new store, whatever it held
\* before; one that does not succeed does not discard: with an empty list the
\* store stays as it was, and after a raised failure the documents are the
\* ones stored before.
C18_SuccessfulRebuildIsFreshBuild ==
    op = "rebuild_index"
    => /\ status = "ok" => fresh = Some(StoreNow)
       /\ status = "EmptyInput" => ~changed
       /\ status # "ok" => ~docsChanged

\* A successful rebuild over a store built with other vectors, documents and
\* dimension.
C18_Witness ==
    /\ op = "rebuild_index" /\ status = "ok" /\ WasBuilt
    /\ docsChanged /\ vecsChanged /\ dimension # pre.dimension
    /\ fresh = Some(StoreNow)

\* C19 (as claimed): after a successful build_index, rebuild_index or
\* add_documents the stored document at position i has id i, so the ids are
\* 0..n-1, each once.
C19_IdsArePositions ==
    (op \in Mutating /\ status = "ok")
    => \A i \in 1..Len(documents) : documents[i].id = i - 1

\* The calls that change the store.
StoreMutating == Mutating \cup {"initialize_system", "refresh_document_index"}

\* The call replaced index and documents together: a build that succeeded
\* (build_index, rebuild_index, add_documents on a store without an index,
\* or the application's build, rebuild or reset).
ReplacedBoth == status = "ok" /\ (op # "add_documents" \/ ~WasBuilt)

\* C20 (as claimed): no build_index, rebuild_index, add_documents or
\* refresh_document_index call changes the stored documents and leaves the
\* index's vectors as they were, or changes the index's vectors and leaves
\* the stored documents as they were.
C20_MutatedTogether ==
    op \in StoreMutating
    => ReplacedBoth \/ (docsChanged <=> vecsChanged)

\* The names of the files the directory holds.
Present == {FileNames[n] : n \in {m \in 1..Len(FileNames) : files[m] # "absent"}}

\* C21: once a file has been removed and refresh_document_index has
\* returned, the store holds exactly the documents load_documents reads from
\* the surviving files, numbered 0..n-1 and the same list as
\* system['documents'], with one freshly computed embedding each; and a
\* query handled later retrieves no document of a file that is gone.
C21_RemoveRebuildsFromSurvivors ==
    /\ (op = "remove_file" /\ ~raised) =>
          /\ documents = load_documents(files)
          /\ systemDocuments = documents
          /\ \A n \in 1..Len(documents) : documents[n].id = n - 1
          /\ Vectors(StoreNow) = [n \in 1..Len(documents) |-> Embed(documents[n])]
    /\ op = "process_query" =>
          \A n \in 1..Len(results) : results[n].filename \in Present

\* A query answered from the content of a file removed before it.
C21_RemovedContentRetrieved ==
    /\ op = "process_query"
    /\ \E n \in 1..Len(results) : results[n].filename \notin Present

\* The members of a list.
Members(list) == {list[n] : n \in 1..Len(list)}

\* C22: when the query handler has handled "Compare AAPL vs MSFT",
\* is_stock_query was true for it, its intent is comparison, and the
\* symbols the handler obtained are AAPL and MSFT.
C22_CompareQueryIsMarket ==
    (op = "process_query" /\ query = "Compare AAPL vs MSFT") =>
        /\ isStock = Some(TRUE)
        /\ get_query_intent(query) = "comparison"
        /\ Members(Val(stockSymbols)) = {"AAPL", "MSFT"}

\* The word or phrase w is one of the words of the string s: it occurs in
\* s with a word boundary on each side.
HasKeyword(s, w) ==
    \E i \in 1..(Len(s) - Len(w) + 1) :
        /\ SubSeq(s, i, i + Len(w) - 1) = w
        /\ BoundaryBefore(s, i)
        /\ BoundaryBefore(s, i + Len(w))

\* The categories one of whose keywords is a keyword of the query.
KeywordCategories(q) ==
    {c \in 1..Len(IntentCategories) :
        \E w \in IntentCategories[c].words : HasKeyword(Lower(q), w)}

\* C23: get_query_intent returns the intent of the first category, in the
\* order price, performance, comparison, analysis, prediction, news, one of
\* whose keywords is a keyword of the query, and general when there is none.
C23_IntentIsFirstKeywordCategory ==
    op = "get_query_intent" =>
        LET hits == KeywordCategories(query)
        IN  Val(intent) =
                IF hits = {} THEN "general_inquiry"
                ELSE IntentCategories[CHOOSE c \in hits :
                                         \A e \in hits : c <= e].intent

\* The tokens of one to five upper-case letters of the query that are known
\* symbols.
KnownTokens(q) ==
    {t \in known_symbols :
        \E i \in 1..Len(q) :
            /\ i + Len(t) - 1 <= Len(q)
            /\ SubSeq(q, i, i + Len(t) - 1) = t
            /\ BoundaryBefore(q, i)
            /\ BoundaryBefore(q, i + Len(t))}

\* The symbols of the companies whose name is a substring of the
\* lower-cased query.
MappedSymbols(q) ==
    {company_mappings[n][2] :
        n \in {m \in 1..Len(company_mappings) :
                  Contains(Lower(q), company_mappings[m][1])}}

C25_QueryAlwaysAnswered ==
    op = "process_query" =>
        /\ ~raised
        /\ ~IsNone(context)
        /\ ~IsNone(answer)
        /\ (IsNone(pre.d) \/ IsNone(encoded)) =>
              (results = <<>> /\ context = Some(""))

\* A query answered although its encoding failed on a built store.
C25_Witness ==
    /\ op = "process_query"
    /\ IsNone(encoded)
    /\ ~IsNone(index)
    /\ results = <<>>
    /\ ~IsNone(answer)

\* max_length of prepare_context when the caller gives none.
DefaultMaxLength == 2000

\* C27: the context process_query hands to generate_response is what
\* prepare_context returns on the retrieved documents, and so no longer than
\* the context budget.
C27_ContextIsPreparedContext ==
    op = "process_query" =>
        /\ context = Some(prepare_context(results, DefaultMaxLength).returned)
        /\ Len(Val(context)) <= DefaultMaxLength

\* The calls of the query processor.
QueryProcessorCall ==
    op \in {"retrieve_documents", "filter_documents_by_threshold",
            "prepare_context"}

\* C26: no call of the query processor leaves the store's index, documents
\* or dimension different, and no stored document ever has a
\* similarity_score or a distance field.
C26_QueryProcessorLeavesStore ==
    /\ QueryProcessorCall => (~changed /\ ~docsChanged /\ ~vecsChanged)
    /\ \A n \in 1..Len(documents) :
          DOMAIN documents[n] \cap {"similarity_score", "distance"} = {}

\* A retrieval that returned scored copies of both stored documents.
C26_Witness ==
    /\ op = "retrieve_documents"
    /\ Len(results) = 2
    /\ Len(documents) = 2
    /\ \A n \in 1..2 : "similarity_score" \in DOMAIN results[n]

\* The calls that load the documents directory.
LoadingCall ==
    op \in {"initialize_system", "handle_file_upload", "remove_file",
            "refresh_document_index"}

\* The file names that end in .txt or .pdf, in any case.
Supported ==
    {n \in 1..Len(FileNames) :
        \E ext \in {".txt", ".pdf"} :
           /\ Len(FileNames[n]) > Len(ext)
           /\ Lower(SubSeq(FileNames[n], Len(FileNames[n]) - Len(ext) + 1,
                           Len(FileNames[n]))) = ext}

\* The files with a supported extension that can be read and hold more than
\* white space.
Loadable == {n \in Supported : files[n] = "text"}

\* C28: what load_documents returned is one document per loadable file, in
\* the order of the files, with the file's name and its extracted text as
\* content; unreadable and blank files and other extensions add nothing, and
\* a directory with no file gives the empty list.
C28_LoadsExactlyReadableFiles ==
    (LoadingCall /\ ~raised) =>
        /\ Len(systemDocuments) = Cardinality(Loadable)
        /\ \A n \in Loadable :
              \E i \in 1..Len(systemDocuments) :
                 /\ systemDocuments[i].filename = FileNames[n]
                 /\ systemDocuments[i].content =
                       read_file(n, files[n], Extension[n]).text
                 /\ i = Cardinality({m \in Loadable : m <= n})
        /\ files = EmptyDirectory => systemDocuments = <<>>

\* A text file loaded from a directory that also holds a PDF that cannot be
\* read and a file of another extension.
C28_Witness ==
    /\ op = "initialize_system"
    /\ files[1] = "text"
    /\ files[2] = "unreadable"
    /\ files[3] = "text"
    /\ Len(systemDocuments) = 1
    /\ systemDocuments[1].content = "aa"

C30_BuiltOrUnbuilt ==
    /\ IsNone(index) <=> IsNone(dimension)
    /\ IsNone(index) => documents = <<>>

\* A built store reset by a refresh that found no document.
C30_Witness ==
    /\ op = "refresh_document_index"
    /\ WasBuilt
    /\ ~IsNone(pre.dimension)
    /\ IsNone(index)
    /\ IsNone(dimension)
    /\ documents = <<>>

====
